---- MODULE Spec2Model ----
(***************************************************************************)
(* A model of simetry's connection race and of its two capability          *)
(* interfaces (src/src/lib.rs).                                            *)
(*                                                                         *)
(*   - SimetryConnectionBuilder::connect creates one connect future per    *)
(*     backend and races them with tokio's select!.                        *)
(*   - Simetry (the session) and Moment (the snapshot) are the traits the  *)
(*     backends implement.                                                 *)
(*                                                                         *)
(* The backend modules (iracing, assetto_corsa, ...) are declared in       *)
(* lib.rs but their code is not part of the sources at hand; what a        *)
(* backend's connect future does when polled, and what dropping it         *)
(* releases, is modelled from the specification.                           *)
(*                                                                         *)
(* Time is discrete; one tick of `now` is one unit of Duration.            *)
(***************************************************************************)
EXTENDS Integers, Sequences, FiniteSets, TLC

\* ---------------------------------------------------------------- bounds
\* Largest retry interval (configured or built in), in ticks.
MaxDelay == 2
\* The race is observed for this many ticks after connect is called.
MaxTime == 3
\* At most this many simulators are launched, each once, while it is observed.
MaxLaunches == 2
\* A transport delivers at most this many snapshots before it is lost.
MaxSnap == 3
\* The caller drops at most this many pending connect calls.
MaxAbandons == 1
\* The caller holds at most this many Sessions at a time.
MaxSessions == 2

None == "none"

\* ------------------------------------------------------------ the backends
\* The branches of the select!, in the order they are written.
Branches ==
    << "iracing", "assetto_corsa", "assetto_corsa_competizione", "rfactor_2",
       "dirt_rally_2", "generic_http", "truck_simulator" >>

NumBranches == Len(Branches)

Backends == { Branches[i] : i \in 1..NumBranches }

\* The backends that are reached through an endpoint address.
NetworkBackends == { "dirt_rally_2", "generic_http", "truck_simulator" }

\* An endpoint address: the default of its backend, or one set by the caller.
Uri(kind, field) == << kind, field >>

VARIABLES
    phase,        \* position of the caller in connect: "idle", "racing", "returned"
    config,       \* the SimetryConnectionBuilder connect was called on
    own_delay,    \* the retry interval of a backend that is not handed one
    futures,      \* per backend: state of its connect future
    deadline,     \* per backend: when its retry sleep ends (0 when not asleep)
    transport,    \* per backend: "closed", "partial" or "open"
    droppedFrom,  \* per backend: the state its future was dropped in (None: not dropped)
    lastAttempt,  \* per backend: when its latest connection attempt began (-1: never)
    running,      \* per backend: whether its simulator is reachable
    upSince,      \* per backend: since when its simulator is reachable (-1: it is not)
    everUp,       \* the simulators that were reachable at some point of the race
    now,          \* the clock
    session,      \* the Box<dyn Simetry> connect returned, by backend (None: none yet)
    owner,        \* who holds which transport: pairs << handle, holder >>
    earlier,      \* the Sessions earlier connect calls returned, still in use
    entry,        \* how connect was called last: "builder", "free" (None: not yet)
    abandoned,    \* how many pending connect calls the caller has dropped
    \* the Session in use
    wire,         \* the snapshots the transport has delivered and next_moment not yet returned
    delivered,    \* how many snapshots the transport has delivered so far
    lost,         \* whether the connection is permanently lost
    call,         \* the caller's next_moment call: "idle" or "pending"
    yielded,      \* what the next_moment calls have returned, in order
    sources,      \* the backends whose transport has delivered a snapshot to the Session
    named,        \* what the name() calls have returned, each with whether
                  \* next_moment had returned absent before the call
    \* a Moment in use
    overrides,    \* the queries the Moment's type implements itself
    data,         \* per query: what the type's own implementation returns
    asked,        \* the query called last (None: none yet)
    answer,       \* what that call returned, as Some(value)
    first         \* the first query called and what it returned (<< >>: none yet)

raceVars ==
    << phase, config, own_delay, futures, deadline, transport, droppedFrom,
       lastAttempt, running, upSince, everUp, now, session, owner, earlier, entry,
       abandoned >>

sessionVars == << wire, delivered, lost, call, yielded, sources, named >>

momentVars == << overrides, data, asked, answer, first >>

vars == << raceVars, sessionVars, momentVars >>

\* ------------------------------------------------------- the configuration
\* The configurations connect is called on: the addresses all defaulted or all
\* set by the caller, and any retry interval.
SimetryConnectionBuilder ==
    { [ generic_http_uri |-> Uri(k, "generic_http"),
        truck_simulator_uri |-> Uri(k, "truck_simulator"),
        dirt_rally_2_uri |-> Uri(k, "dirt_rally_2"),
        retry_delay |-> d ] : k \in { "DEFAULT_URI", "custom" }, d \in 1..MaxDelay }

\* The retry interval of a default configuration, in seconds (one tick each).
DefaultRetryDelay == 5

\* (mutant) a default configuration that retries every second.
SimetryConnectionBuilder_hasty ==
    [ generic_http_uri |-> Uri("DEFAULT_URI", "generic_http"),
      truck_simulator_uri |-> Uri("DEFAULT_URI", "truck_simulator"),
      dirt_rally_2_uri |-> Uri("DEFAULT_URI", "dirt_rally_2"),
      retry_delay |-> 1 ]

\* SimetryConnectionBuilder::default(): every address the default of its
\* backend, and the default retry interval.
SimetryConnectionBuilder_default ==
    [ generic_http_uri |-> Uri("DEFAULT_URI", "generic_http"),
      truck_simulator_uri |-> Uri("DEFAULT_URI", "truck_simulator"),
      dirt_rally_2_uri |-> Uri("DEFAULT_URI", "dirt_rally_2"),
      retry_delay |-> DefaultRetryDelay ]

\* The configurations the caller holds: the default one, or one with addresses
\* and a retry interval of the caller's own.
CallerConfigs ==
    { c \in SimetryConnectionBuilder : c.generic_http_uri = Uri("custom", "generic_http") }
        \cup { SimetryConnectionBuilder_default }

\* What connect hands to each backend's connect function: per parameter, the
\* set holding the argument, empty when the function has no such parameter.
ConnectArgs(cfg, b) ==
    CASE b = "iracing" -> [ uri |-> {}, retry_delay |-> { cfg.retry_delay } ]
      [] b = "assetto_corsa" -> [ uri |-> {}, retry_delay |-> { cfg.retry_delay } ]
      [] b = "assetto_corsa_competizione" ->
            [ uri |-> {}, retry_delay |-> { cfg.retry_delay } ]
      [] b = "rfactor_2" -> [ uri |-> {}, retry_delay |-> {} ]
      [] b = "dirt_rally_2" ->
            [ uri |-> { cfg.dirt_rally_2_uri }, retry_delay |-> { cfg.retry_delay } ]
      [] b = "generic_http" ->
            [ uri |-> { cfg.generic_http_uri }, retry_delay |-> { cfg.retry_delay } ]
      [] b = "truck_simulator" ->
            [ uri |-> { cfg.truck_simulator_uri }, retry_delay |-> { cfg.retry_delay } ]

\* The interval a backend sleeps between two attempts: the one it was handed,
\* or its own when it was handed none.
RetryInterval(b) ==
    LET given == ConnectArgs(config, b).retry_delay IN
    IF given # {} THEN CHOOSE d \in given : TRUE ELSE own_delay

\* ------------------------------------------------- a backend's connect future
\* The number of the connect call that is pending or returned last, counting
\* from 1.
RaceNo == abandoned + Len(earlier) + 1

\* The holders of transports: the attempt on backend b of the current call,
\* and the Session the current call returns.
AttemptId(b) == << "attempt", RaceNo, b >>

SessionId == << "session", RaceNo >>

\* (mutant) a backend keeps one transport for the whole process, and every
\* attempt on that backend opens that one.
OpenProcessWide(r, b) == << 0, b >>

\* The transport the attempt on backend b of call r opens: one of its own.
OpenTransport(r, b) == << r, b >>

\* What holder `who` holds, and the holdings without it.
Holdings(who, own) == { p \in own : p[2] = who }

Release(who, own) == { p \in own : p[2] # who }

\* Who holds a transport of backend b.
HoldersOf(b) == { p[2] : p \in { q \in owner : q[1][2] = b } }

\* The part of the state a poll of the select! may change.
Racing ==
    [ futures |-> futures, deadline |-> deadline, transport |-> transport,
      droppedFrom |-> droppedFrom, lastAttempt |-> lastAttempt, owner |-> owner ]

\* One connection attempt of backend b, begun at `now`.  An unreachable
\* simulator sends the future to sleep for its retry interval.  A reachable
\* one is connected at once through local shared memory, and after one more
\* suspension, with the transport partly open, through the network.
Attempt(b, s) ==
    LET s1 == [s EXCEPT !.lastAttempt[b] = now] IN
    IF ~running[b]
    THEN [s1 EXCEPT !.futures[b] = "sleeping",
                    !.deadline[b] = now + RetryInterval(b),
                    !.transport[b] = "closed",
                    !.owner = Release(AttemptId(b), @)]
    ELSE LET mine == { << OpenTransport(RaceNo, b), AttemptId(b) >> }
         IN IF b \in NetworkBackends
            THEN [s1 EXCEPT !.futures[b] = "connecting", !.transport[b] = "partial",
                            !.owner = Release(AttemptId(b), @) \cup mine]
            ELSE [s1 EXCEPT !.futures[b] = "done", !.transport[b] = "open",
                            !.owner = Release(AttemptId(b), @) \cup mine]

\* One poll of backend b's connect future.
PollFuture(b, s) ==
    CASE s.futures[b] = "new" -> Attempt(b, s)
      [] s.futures[b] = "sleeping" ->
            IF now >= s.deadline[b] THEN Attempt(b, s) ELSE s
      [] s.futures[b] = "connecting" ->
            IF running[b]
            THEN [s EXCEPT !.futures[b] = "done", !.transport[b] = "open"]
            ELSE [s EXCEPT !.futures[b] = "sleeping",
                           !.deadline[b] = now + RetryInterval(b),
                           !.transport[b] = "closed",
                           !.owner = Release(AttemptId(b), @)]
      [] OTHER -> s

\* Dropping backend b's connect future releases what it holds.
DropFuture(b, s) ==
    [s EXCEPT !.futures[b] = "dropped", !.droppedFrom[b] = s.futures[b],
              !.deadline[b] = 0, !.transport[b] = "closed",
              !.owner = Release(AttemptId(b), @)]

\* ------------------------------------------------------------- the select!
\* (mutant) a biased select!: every poll starts at the first branch.
BiasedStart == { 0 }

\* select! starts each poll at a branch picked at random.
SelectStart == 0..(NumBranches - 1)

\* The order in which a poll that starts at `start` goes through the branches.
PollOrder(start) ==
    [ k \in 1..NumBranches |-> Branches[((start + k - 1) % NumBranches) + 1] ]

\* (mutant) a branch is taken whatever the poll of its future returned.
BranchCompletesAlways(b, s) == TRUE

\* A branch `x = future => ...` is taken when its future has returned Ready.
BranchCompletes(b, s) == s.futures[b] = "done"

\* (mutant) a poll that goes on after a branch has completed: every branch is
\* polled and the last one to complete decides the output.
RECURSIVE PollEveryBranch(_, _, _)
PollEveryBranch(order, k, s) ==
    IF k > Len(order)
    THEN [ state |-> s, out |-> None ]
    ELSE LET b == order[k]
             s2 == PollFuture(b, s)
             rest == PollEveryBranch(order, k + 1, s2)
         IN IF rest.out = None /\ BranchCompletes(b, s2)
            THEN [ state |-> rest.state, out |-> b ]
            ELSE rest

\* (mutant) a select! with a timeout of its own: from the first tick on, a
\* branch whose future is still pending when polled is given up.
RECURSIVE PollBranchesTimeout(_, _, _)
PollBranchesTimeout(order, k, s) ==
    IF k > Len(order)
    THEN [ state |-> s, out |-> None ]
    ELSE LET b == order[k]
             s2 == PollFuture(b, s)
         IN IF BranchCompletes(b, s2)
            THEN [ state |-> s2, out |-> b ]
            ELSE PollBranchesTimeout(order, k + 1,
                                     IF now >= 1 THEN DropFuture(b, s2) ELSE s2)

\* One poll of the select!: the branches are polled in order and the first
\* that completes decides the output; the rest of the order is not polled.
RECURSIVE PollBranches(_, _, _)
PollBranches(order, k, s) ==
    IF k > Len(order)
    THEN [ state |-> s, out |-> None ]
    ELSE LET b == order[k]
         IN CHOOSE r \in { IF BranchCompletes(b, s2)
                            THEN [ state |-> s2, out |-> b ]
                            ELSE PollBranches(order, k + 1, s2) :
                            s2 \in { PollFuture(b, s) } } : TRUE

\* When a branch is taken the futures of all the other branches are dropped.
RECURSIVE DropAll(_, _)
DropAll(bs, s) ==
    IF bs = {} THEN s
    ELSE LET b == CHOOSE x \in bs : TRUE
         IN CHOOSE r \in { DropAll(bs \ {b}, d) : d \in { DropFuture(b, s) } } : TRUE

\* (mutant) the other futures are left alive, as detached tasks would be.
KeepLosers(w, s) == s

DropLosers(w, s) == DropAll(Backends \ {w}, s)

\* (mutant) every handler boxes the client of the first branch.
BoxedByFirst(w) == Branches[1]

\* The backend whose client the handler of branch w boxes: `x`, the output of
\* the branch's own future.
BoxedBy(w) == w

\* (mutant) the handler boxes a second handle on the client and the completed
\* attempt keeps its own.
BoxSharedClient(w, s) ==
    [s EXCEPT !.owner = @ \cup { << p[1], SessionId >> : p \in Holdings(AttemptId(w), @) }]

\* The handler `Box::new(x)` moves the client, and the transport it holds, out
\* of the completed attempt into the Session connect returns.
BoxClient(w, s) ==
    [s EXCEPT !.owner = { IF p[2] = AttemptId(w) THEN << p[1], SessionId >> ELSE p : p \in @ }]

\* Branch w is taken: the other futures are dropped, then the handler runs.
TakeBranch(w, s) == BoxClient(w, DropLosers(w, s))

\* (mutant) the caller's drop reaches only the futures that are asleep.
DropSleepers(s) == DropAll({ b \in Backends : s.futures[b] = "sleeping" }, s)

\* Dropping the pending connect drops the select! and the seven futures with it.
DropConnect(s) == DropAll(Backends, s)

\* (mutant) connect creates no future for rFactor 2.
FuturesButOne == [b \in Backends |-> IF b = "rfactor_2" THEN None ELSE "new"]

\* connect creates one connect future per backend; none is polled yet.
CreatedFutures == [b \in Backends |-> "new"]

\* -------------------------------------------------------------- the Session
\* Snapshots are numbered 1, 2, ... in the order the transport delivers them;
\* the terminal absent value of next_moment is written 0.
AbsentMoment == 0

\* The most next_moment calls one Session is observed for.
MaxCalls == MaxSnap + 2

\* (mutant) next_moment waits for new data even when the connection is lost.
NextMomentWaitsForData(w, l) == w # << >>

\* next_moment returns when a snapshot is at hand or the connection is lost,
\* and stays suspended otherwise.
NextMomentReady(w, l) == w # << >> \/ l

\* (mutant) next_moment hands out the latest snapshot at hand.
NextMomentLatest(w, l, last) == IF w # << >> THEN w[Len(w)] ELSE AbsentMoment

\* (mutant) next_moment starts over once it has reported the end: the call
\* after an absent value hands out the first snapshot again.
NextMomentReplay(w, l, last) ==
    IF w # << >> THEN Head(w)
    ELSE IF last # << >> /\ last[Len(last)] = AbsentMoment THEN last[1]
         ELSE AbsentMoment

\* What next_moment returns: the oldest snapshot at hand, and the terminal
\* absent value when there is none (the connection is then lost).
NextMomentValue(w, l, last) == IF w # << >> THEN Head(w) ELSE AbsentMoment

\* The snapshots left at hand once next_moment has returned.
NextMomentRest(w) == IF w # << >> THEN Tail(w) ELSE w

\* Simetry::name of backend b's client: the name of b's simulator.
name(b) == << "simulator", b >>

NoSession ==
    /\ wire = << >>
    /\ delivered = 0
    /\ lost = FALSE
    /\ call = "idle"
    /\ yielded = << >>
    /\ sources = { }
    /\ named = { }

\* --------------------------------------------------------------- the Moment
\* Option<T>: None and Some(x).
Absent == << >>
Some(x) == << x >>

Queries ==
    { "vehicle_left", "vehicle_right", "basic_telemetry", "shift_point", "flags",
      "vehicle_unique_id", "ignition_on", "starter_on" }

\* BasicTelemetry::default(): every field zero or false.
BasicTelemetry_default ==
    [ gear |-> 0, speed |-> 0, engine_rotation_speed |-> 0,
      max_engine_rotation_speed |-> 0, pit_limiter_engaged |-> FALSE,
      in_pit_lane |-> FALSE ]

\* RacingFlags::default(): no flag is active.
RacingFlags_default == { }

\* The provided methods of the trait.
vehicle_left == FALSE

vehicle_right == FALSE

basic_telemetry == Absent

shift_point == Absent

flags == RacingFlags_default

vehicle_unique_id == Absent

\* (mutant) the ignition is reported off when the sim does not tell.
ignition_off == FALSE

ignition_on == TRUE

starter_on == FALSE

Provided(q) ==
    CASE q = "vehicle_left" -> vehicle_left
      [] q = "vehicle_right" -> vehicle_right
      [] q = "basic_telemetry" -> basic_telemetry
      [] q = "shift_point" -> shift_point
      [] q = "flags" -> flags
      [] q = "vehicle_unique_id" -> vehicle_unique_id
      [] q = "ignition_on" -> ignition_on
      [] q = "starter_on" -> starter_on

\* What the implementations of a backend's own Moment type may return.
Samples ==
    { [ vehicle_left |-> TRUE, vehicle_right |-> TRUE,
        basic_telemetry |-> Some(BasicTelemetry_default), shift_point |-> Some(0),
        flags |-> { }, vehicle_unique_id |-> Some(""),
        ignition_on |-> FALSE, starter_on |-> TRUE ],
      [ vehicle_left |-> FALSE, vehicle_right |-> TRUE,
        basic_telemetry |->
            Some([ gear |-> 3, speed |-> 45, engine_rotation_speed |-> 6000,
                   max_engine_rotation_speed |-> 8000, pit_limiter_engaged |-> FALSE,
                   in_pit_lane |-> FALSE ]),
        shift_point |-> Some(7000), flags |-> { "yellow" },
        vehicle_unique_id |-> Some("car"), ignition_on |-> TRUE, starter_on |-> FALSE ],
      [ vehicle_left |-> TRUE, vehicle_right |-> FALSE,
        basic_telemetry |-> Absent, shift_point |-> Absent,
        flags |-> { "checkered" }, vehicle_unique_id |-> Absent,
        ignition_on |-> FALSE, starter_on |-> FALSE ] }

\* (mutant) a provided starter_on that asks the Moment for ignition_on.
CallStarterAsksIgnition(q) ==
    IF q \in overrides THEN data[q]
    ELSE IF q = "starter_on" /\ "ignition_on" \in overrides THEN data["ignition_on"]
    ELSE Provided(q)

\* A call of query q on the Moment: the type's own implementation when it has
\* one, the provided method otherwise.
Call(q) == IF q \in overrides THEN data[q] ELSE Provided(q)

NoMoment ==
    /\ overrides = { }
    /\ data = CHOOSE d \in Samples : d.shift_point = Some(0)
    /\ asked = None
    /\ answer = Absent
    /\ first = << >>

\* ------------------------------------------------------------------ actions
TypeOK ==
    /\ phase \in { "idle", "racing", "returned" }
    /\ config \in SimetryConnectionBuilder \cup { SimetryConnectionBuilder_default }
    /\ own_delay \in 1..MaxDelay
    /\ futures \in [Backends -> { None, "new", "sleeping", "connecting", "done", "dropped" }]
    /\ deadline \in [Backends -> 0..(MaxTime + MaxDelay + DefaultRetryDelay)]
    /\ transport \in [Backends -> { "closed", "partial", "open" }]
    /\ droppedFrom \in [Backends -> { None, "new", "sleeping", "connecting", "done" }]
    /\ lastAttempt \in [Backends -> -1..MaxTime]
    /\ running \in [Backends -> BOOLEAN]
    /\ upSince \in [Backends -> -1..MaxTime]
    /\ everUp \subseteq Backends
    /\ now \in 0..MaxTime
    /\ session \in Backends \cup { None }
    /\ \A p \in owner :
          /\ p[1] \in (0..(MaxAbandons + MaxSessions)) \X Backends
          /\ p[2][1] \in { "attempt", "session" }
    /\ Len(earlier) < MaxSessions
    /\ entry \in { None, "builder", "free" }
    /\ abandoned \in 0..MaxAbandons

RunningSet(r) == { b \in Backends : r[b] }

Init ==
    /\ phase = "idle"
    /\ config \in CallerConfigs
    /\ own_delay \in 1..MaxDelay
    /\ futures = [b \in Backends |-> None]
    /\ deadline = [b \in Backends |-> 0]
    /\ transport = [b \in Backends |-> "closed"]
    /\ droppedFrom = [b \in Backends |-> None]
    /\ lastAttempt = [b \in Backends |-> -1]
    /\ running \in { r \in [Backends -> BOOLEAN] : Cardinality(RunningSet(r)) <= MaxLaunches }
    /\ upSince = [b \in Backends |-> IF running[b] THEN 0 ELSE -1]
    /\ everUp = RunningSet(running)
    /\ now = 0
    /\ session = None
    /\ owner = { }
    /\ earlier = << >>
    /\ entry = None
    /\ abandoned = 0
    /\ NoSession
    /\ NoMoment

\* connect is called on configuration cfg through entry point `how`: the seven
\* connect futures are created and the caller waits on the select!.
StartRace(cfg, how) ==
    /\ phase' = "racing"
    /\ config' = cfg
    /\ entry' = how
    /\ futures' = CreatedFutures
    /\ deadline' = [b \in Backends |-> 0]
    /\ droppedFrom' = [b \in Backends |-> None]
    /\ lastAttempt' = [b \in Backends |-> -1]
    /\ earlier' = IF session = None THEN earlier
                  ELSE Append(earlier, [ race |-> RaceNo, backend |-> session ])
    /\ transport' = IF session = None THEN transport
                    ELSE [transport EXCEPT ![session] = "closed"]
    /\ session' = None
    /\ UNCHANGED << own_delay, owner, running, upSince, everUp, now, abandoned >>
    /\ UNCHANGED << sessionVars, momentVars >>

\* SimetryConnectionBuilder::connect, called on the caller's configuration.
BuilderConnect == phase = "idle" /\ StartRace(config, "builder")

\* The free function connect().
Connect == phase = "idle" /\ StartRace(SimetryConnectionBuilder_default, "free")

\* connect is called again while the Session of the call before is in use.
ConnectAgain ==
    /\ phase = "returned"
    /\ Len(earlier) + 1 < MaxSessions
    /\ StartRace(config, "builder")

\* The caller drops the pending connect call.
Abandon ==
    /\ phase = "racing"
    /\ abandoned < MaxAbandons
    /\ LET s == DropConnect(Racing) IN
         /\ futures' = s.futures
         /\ deadline' = s.deadline
         /\ transport' = s.transport
         /\ droppedFrom' = s.droppedFrom
         /\ lastAttempt' = s.lastAttempt
         /\ owner' = s.owner
    /\ phase' = "idle"
    /\ abandoned' = abandoned + 1
    /\ UNCHANGED << config, own_delay, running, upSince, everUp, now, session, entry,
                    earlier >>
    /\ UNCHANGED << sessionVars, momentVars >>

\* What a poll of the select! that starts at branch `start` comes to.
SelectOutcome(start) == PollBranches(PollOrder(start), 1, Racing)

\* The select! is polled.  Either a branch is taken and connect returns its
\* boxed client, or every branch is pending and connect stays suspended.
SelectPoll ==
    /\ phase = "racing"
    /\ \E start \in SelectStart :
         LET r == SelectOutcome(start) IN
         IF r.out # None
         THEN LET s == TakeBranch(r.out, r.state) IN
              /\ phase' = "returned"
              /\ session' = BoxedBy(r.out)
              /\ owner' = s.owner
              /\ futures' = s.futures
              /\ deadline' = s.deadline
              /\ transport' = s.transport
              /\ droppedFrom' = s.droppedFrom
              /\ lastAttempt' = s.lastAttempt
         ELSE /\ phase' = "racing"
              /\ session' = session
              /\ futures' = r.state.futures
              /\ deadline' = r.state.deadline
              /\ transport' = r.state.transport
              /\ droppedFrom' = r.state.droppedFrom
              /\ lastAttempt' = r.state.lastAttempt
              /\ owner' = r.state.owner
    /\ UNCHANGED << config, own_delay, running, upSince, everUp, now, entry, abandoned,
                    earlier >>
    /\ UNCHANGED << sessionVars, momentVars >>

\* A simulator is launched while connect is pending.
SimStart(b) ==
    /\ phase = "racing"
    /\ b \notin everUp
    /\ Cardinality(everUp) < MaxLaunches
    /\ running' = [running EXCEPT ![b] = TRUE]
    /\ upSince' = [upSince EXCEPT ![b] = now]
    /\ everUp' = everUp \cup {b}
    /\ UNCHANGED << phase, config, own_delay, futures, deadline, transport,
                    droppedFrom, lastAttempt, now, session, owner, entry, abandoned,
                    earlier >>
    /\ UNCHANGED << sessionVars, momentVars >>

\* A simulator exits while connect is pending.
SimStop(b) ==
    /\ phase = "racing"
    /\ running[b]
    /\ running' = [running EXCEPT ![b] = FALSE]
    /\ upSince' = [upSince EXCEPT ![b] = -1]
    /\ UNCHANGED << phase, config, own_delay, futures, deadline, transport,
                    droppedFrom, lastAttempt, everUp, now, session, owner, entry,
                    abandoned, earlier >>
    /\ UNCHANGED << sessionVars, momentVars >>

\* A future with work to do is polled before the clock moves on: one never
\* polled, one whose sleep has ended, one whose transport is being opened.
Due(b) ==
    \/ futures[b] \in { "new", "connecting" }
    \/ futures[b] = "sleeping" /\ deadline[b] <= now

\* Time passes while connect is suspended.
Tick ==
    /\ phase = "racing"
    /\ now < MaxTime
    /\ \A b \in Backends : ~Due(b)
    /\ now' = now + 1
    /\ UNCHANGED << phase, config, own_delay, futures, deadline, transport,
                    droppedFrom, lastAttempt, running, upSince, everUp, session,
                    owner, entry, abandoned, earlier >>
    /\ UNCHANGED << sessionVars, momentVars >>

Next ==
    \/ BuilderConnect
    \/ SelectPoll
    \/ \E b \in Backends : SimStart(b)
    \/ \E b \in Backends : SimStop(b)
    \/ Tick

Spec == Init /\ [][Next]_vars

\* The race with all the caller can do: either entry point, and dropping a
\* pending call and calling again.
NextCaller ==
    \/ Next
    \/ Connect
    \/ Abandon

SpecCaller == Init /\ [][NextCaller]_vars

\* The race with a caller that calls connect again while it uses the Sessions
\* it was returned before.
NextSessions ==
    \/ Next
    \/ ConnectAgain

SpecSessions == Init /\ [][NextSessions]_vars

\* ------------------------------------------------- the Session, once returned
\* The race as connect leaves it when only backend w's simulator runs.  The
\* first poll of the select! starts at branch `start1`, the second, if there
\* is one, at branch `start2`: w's future completes at the first poll, or at
\* the second when its transport is opened through the network.  The futures
\* polled before w's at the first poll have made their attempt and sleep.
RaceWonBy(w, start1, start2) ==
    LET s0 == [ futures |-> [b \in Backends |-> "new"],
                deadline |-> [b \in Backends |-> 0],
                transport |-> [b \in Backends |-> "closed"],
                droppedFrom |-> [b \in Backends |-> None],
                lastAttempt |-> [b \in Backends |-> -1],
                owner |-> { } ]
        r1 == PollBranches(PollOrder(start1), 1, s0)
        r2 == IF r1.out # None THEN r1
              ELSE PollBranches(PollOrder(start2), 1, r1.state)
    IN TakeBranch(w, r2.state)

InitSession ==
    /\ phase = "returned"
    /\ config \in SimetryConnectionBuilder
    /\ own_delay \in 1..MaxDelay
    /\ now = 0
    /\ earlier = << >>
    /\ abandoned = 0
    /\ \E w \in Backends :
         /\ running = [b \in Backends |-> b = w]
         /\ everUp = { w }
         /\ session = BoxedBy(w)
         /\ \E start1 \in SelectStart : \E start2 \in SelectStart :
              \E r \in { RaceWonBy(w, start1, start2) } :
                 /\ futures = r.futures
                 /\ deadline = r.deadline
                 /\ transport = r.transport
                 /\ droppedFrom = r.droppedFrom
                 /\ lastAttempt = r.lastAttempt
                 /\ owner = r.owner
    /\ upSince = [b \in Backends |-> IF running[b] THEN 0 ELSE -1]
    /\ entry = "builder"
    /\ NoSession
    /\ NoMoment

\* The transport delivers the next snapshot of the simulator.
TransportDelivers ==
    /\ phase = "returned"
    /\ ~lost
    /\ delivered < MaxSnap
    /\ delivered' = delivered + 1
    /\ wire' = Append(wire, delivered + 1)
    /\ sources' = sources \cup { p[1][2] : p \in Holdings(SessionId, owner) }
    /\ UNCHANGED << lost, call, yielded, named, raceVars, momentVars >>

\* The connection is permanently lost.
ConnectionLost ==
    /\ phase = "returned"
    /\ ~lost
    /\ lost' = TRUE
    /\ UNCHANGED << wire, delivered, call, yielded, sources, named, raceVars, momentVars >>

\* The caller calls next_moment.
NextMomentCall ==
    /\ phase = "returned"
    /\ call = "idle"
    /\ Len(yielded) < MaxCalls
    /\ call' = "pending"
    /\ UNCHANGED << wire, delivered, lost, yielded, sources, named, raceVars, momentVars >>

\* The pending next_moment call returns.
NextMomentReturn ==
    /\ call = "pending"
    /\ NextMomentReady(wire, lost)
    /\ yielded' = Append(yielded, NextMomentValue(wire, lost, yielded))
    /\ wire' = NextMomentRest(wire)
    /\ call' = "idle"
    /\ UNCHANGED << delivered, lost, sources, named, raceVars, momentVars >>

\* Whether next_moment has returned absent.
Ended == \E i \in 1..Len(yielded) : yielded[i] = AbsentMoment

\* The caller calls name() on the Session.
NameCall ==
    /\ phase = "returned"
    /\ named' = named \cup { << name(session), Ended >> }
    /\ UNCHANGED << wire, delivered, lost, call, yielded, sources, raceVars, momentVars >>

NextSession ==
    \/ TransportDelivers
    \/ ConnectionLost
    \/ NextMomentCall
    \/ NextMomentReturn
    \/ NameCall

SpecSession == InitSession /\ [][NextSession]_vars

\* ---------------------------------------------------- the Moment, once yielded
InitMoment ==
    /\ phase = "idle"
    /\ config = CHOOSE c \in SimetryConnectionBuilder :
                    c.retry_delay = 1 /\ c.generic_http_uri = Uri("DEFAULT_URI", "generic_http")
    /\ own_delay = 1
    /\ futures = [b \in Backends |-> None]
    /\ deadline = [b \in Backends |-> 0]
    /\ transport = [b \in Backends |-> "closed"]
    /\ droppedFrom = [b \in Backends |-> None]
    /\ lastAttempt = [b \in Backends |-> -1]
    /\ running = [b \in Backends |-> FALSE]
    /\ upSince = [b \in Backends |-> -1]
    /\ everUp = { }
    /\ now = 0
    /\ session = None
    /\ owner = { }
    /\ earlier = << >>
    /\ entry = None
    /\ abandoned = 0
    /\ NoSession
    /\ overrides \in SUBSET Queries
    /\ data \in Samples
    /\ asked = None
    /\ answer = Absent
    /\ first = << >>

\* The caller calls query q on the Moment.
MomentQuery(q) ==
    /\ asked' = q
    /\ answer' = Some(Call(q))
    /\ first' = IF first = << >> THEN << q, Some(Call(q)) >> ELSE first
    /\ UNCHANGED << overrides, data, raceVars, sessionVars >>

NextMoment == \E q \in Queries : MomentQuery(q)

SpecMoment == InitMoment /\ [][NextMoment]_vars

\* ------------------------------------------------------------------ claims
Losers == Backends \ { session }

\* C1: connect returns exactly one Session, produced by an attempt that had
\* completed: no Session exists while connect is pending, the Session returned
\* is that of a backend whose future returned Ready after an attempt it really
\* made, and no other backend's attempt completed.
C1_OneSessionFromCompletedAttempt ==
    /\ phase # "returned" =>
          /\ session = None
          /\ \A b \in Backends : futures[b] # "done"
    /\ phase = "returned" =>
          /\ session \in Backends
          /\ futures[session] = "done"
          /\ lastAttempt[session] >= 0
          /\ \A b \in Losers : futures[b] # "done" /\ droppedFrom[b] # "done"

\* C1 witness: connect has returned while two simulators were reachable.
C1_Witness ==
    /\ phase = "returned"
    /\ session \in Backends
    /\ Cardinality(RunningSet(running)) = 2

\* C2: when connect returns, each of the six losing futures has been dropped
\* and holds no transport, whatever state it was dropped in, and the one
\* transport that is open is that of the returned Session.
C2_LosersReleasedOnReturn ==
    phase = "returned" =>
        /\ \A b \in Losers : futures[b] = "dropped" /\ transport[b] = "closed"
        /\ Cardinality(Losers) = NumBranches - 1
        /\ transport[session] = "open"
        /\ { b \in Backends : transport[b] # "closed" } = { session }

\* C2 witness: connect has returned and one loser was dropped with its
\* transport partly open, another in its retry sleep.
C2_Witness ==
    /\ phase = "returned"
    /\ \E b \in Losers : droppedFrom[b] = "connecting"
    /\ \E b \in Losers : droppedFrom[b] = "sleeping"

\* C3: connect has no error outcome.  What it returns is a Session of a
\* backend whose simulator was reachable; while no simulator has been
\* reachable it does not return; and while it is pending every future is in
\* flight (none failed, none gave up), a sleeping one with its next attempt
\* scheduled within its retry interval.
C3_NeverFails ==
    /\ phase = "returned" => session \in Backends /\ session \in everUp
    /\ everUp = {} => phase # "returned"
    /\ phase = "racing" =>
          \A b \in Backends :
             /\ futures[b] \in { "new", "sleeping", "connecting" }
             /\ futures[b] = "sleeping" =>
                   /\ lastAttempt[b] >= 0
                   /\ now <= deadline[b]
                   /\ deadline[b] <= now + RetryInterval(b)

\* C3 witness: no simulator was ever reachable, time has passed, and every
\* backend has retried and sleeps again.
C3_Witness ==
    /\ phase = "racing"
    /\ everUp = {}
    /\ now >= 2
    /\ \A b \in Backends : futures[b] = "sleeping" /\ lastAttempt[b] >= 1

\* C4 (the claim as stated): while connect is pending, no simulator has been
\* reachable for longer than the configured retry interval.
C4_ResolvesWithinConfiguredInterval ==
    phase = "racing" =>
        \A b \in Backends : running[b] => now - upSince[b] <= config.retry_delay

\* C5 (the claim as stated): with no simulator reachable, two successive
\* attempts of one backend begin at least the configured retry interval apart.
C5_OneAttemptPerConfiguredInterval ==
    [][ \A b \in Backends :
          ( /\ RunningSet(running) = {}
            /\ lastAttempt[b] >= 0
            /\ lastAttempt'[b] # lastAttempt[b] )
          => lastAttempt'[b] - lastAttempt[b] >= config.retry_delay ]_vars

\* A branch that would complete if the select! polled it now.
ReadyIfPolled(b) == BranchCompletes(b, PollFuture(b, Racing))

\* C6: there is no priority among the branches: at every poll of the select!,
\* each backend whose future is ready to complete can be the one returned.
C6_NoPriority ==
    phase = "racing" =>
        \A b \in Backends :
            ReadyIfPolled(b) => \E start \in SelectStart : SelectOutcome(start).out = b

\* C6 witness: two futures are ready at the same poll, and connect has
\* returned the one listed later in the select!.
C6_Witness ==
    /\ phase = "returned"
    /\ session = "rfactor_2"
    /\ running["iracing"]
    /\ lastAttempt["iracing"] = -1


\* C7: on a Moment whose type implements none of the queries itself, every
\* query returns its documented default, and a query that bears data returns
\* absent, never a zero value.
C7_DefaultsWhenNothingOverridden ==
    overrides = { } =>
        /\ asked = "vehicle_left" => answer = Some(FALSE)
        /\ asked = "vehicle_right" => answer = Some(FALSE)
        /\ asked = "basic_telemetry" =>
              answer = Some(Absent) /\ answer # Some(Some(BasicTelemetry_default))
        /\ asked = "shift_point" => answer = Some(Absent) /\ answer # Some(Some(0))
        /\ asked = "flags" => answer = Some({ })
        /\ asked = "vehicle_unique_id" => answer = Some(Absent) /\ answer # Some(Some(""))
        /\ asked = "ignition_on" => answer = Some(TRUE)
        /\ asked = "starter_on" => answer = Some(FALSE)

\* C7 witness: ignition_on has been called on such a Moment and has returned true.
C7_Witness ==
    /\ overrides = { }
    /\ asked = "ignition_on"
    /\ answer = Some(TRUE)

\* The snapshots among what next_moment has returned so far.
Snapshots(ys) == SelectSeq(ys, LAMBDA y : y # AbsentMoment)

\* C8: next_moment returns the snapshots in the order the transport delivered
\* them, each once, none skipped: together with those still at hand, the
\* snapshots returned so far are exactly 1, 2, ..., delivered; and an absent
\* value is returned only after all of them.
C8_SnapshotsInArrivalOrder ==
    /\ Snapshots(yielded) \o wire = [ i \in 1..delivered |-> i ]
    /\ \A i \in 1..Len(yielded) :
          yielded[i] = AbsentMoment =>
              SubSeq(yielded, 1, i - 1) = [ k \in 1..delivered |-> k ]
                                              \o [ k \in 1..(i - 1 - delivered) |-> AbsentMoment ]

\* C8 witness: three snapshots were delivered, the connection was lost, and
\* four calls have returned S1, S2, S3, absent.
C8_Witness ==
    /\ delivered = 3
    /\ lost
    /\ yielded = << 1, 2, 3, AbsentMoment >>

\* What holds of next_moment in every state: an absent value has been returned
\* only if the connection is permanently lost (and what was delivered has been
\* handed out); while the connection is alive and no snapshot is at hand the
\* call stays suspended; once the connection is lost a pending call can return.
AbsentOnlyWhenLost ==
    /\ (\E i \in 1..Len(yielded) : yielded[i] = AbsentMoment) => lost /\ wire = << >>
    /\ (call = "pending" /\ ~lost /\ wire = << >>) => ~ENABLED NextMomentReturn
    /\ (call = "pending" /\ lost) => ENABLED NextMomentReturn
    /\ \A i \in 1..Len(yielded) : yielded[i] \in 0..delivered

\* C9: next_moment returns absent exactly when the connection is permanently
\* lost.  It never returns absent while the connection is alive, it suspends
\* instead; once the connection is lost a pending call returns; and every
\* call that returns when the connection is lost and nothing delivered is
\* left returns absent, never a snapshot or anything else, while a call that
\* returns when a snapshot is at hand returns that snapshot, not absent.
C9_AbsentIffConnectionLost ==
    /\ []AbsentOnlyWhenLost
    /\ [][ Len(yielded') > Len(yielded) =>
               /\ Len(yielded') = Len(yielded) + 1
               /\ (lost /\ wire = << >>) <=> (yielded'[Len(yielded')] = AbsentMoment)
               /\ wire # << >> => yielded'[Len(yielded')] = Head(wire) ]_vars

\* C9 witness: the connection was lost while a call was pending with nothing
\* at hand, and that call has returned absent.
C9_Witness ==
    /\ lost
    /\ delivered = 1
    /\ yielded = << 1, AbsentMoment >>
    /\ call = "idle"

\* No call after one that returned absent has returned a snapshot that was
\* returned before it.
NoReplay ==
    \A i \in 1..Len(yielded) :
        yielded[i] = AbsentMoment =>
            \A j \in (i + 1)..Len(yielded) :
                yielded[j] # AbsentMoment =>
                    \A k \in 1..(i - 1) : yielded[j] # yielded[k]

\* C10: once next_moment has returned absent, no later call returns a snapshot
\* that was returned before it; and no step rewinds or restarts the Session:
\* what it has returned and what its transport has delivered only grow, and
\* it stays the Session of the same backend.
C10_NoReplayAfterEnd ==
    /\ []NoReplay
    /\ [][ /\ Len(yielded') >= Len(yielded)
           /\ SubSeq(yielded', 1, Len(yielded)) = yielded
           /\ delivered' >= delivered
           /\ session' = session ]_vars

\* C10 witness: next_moment was called again after it had returned absent.
C10_Witness ==
    /\ Len(yielded) >= 3
    /\ yielded[1] = 1
    /\ yielded[2] = AbsentMoment
    /\ yielded[3] = AbsentMoment

\* C11: when the caller has dropped a pending connect, nothing of the dropped
\* race is held any more: every future is dropped, every transport is closed
\* and has no holder.  A connect called afterwards on the same configuration
\* races seven futures of its own, holds only what its own attempts opened,
\* returns at the first poll that finds a simulator reachable through shared
\* memory, and returns one Session on an open transport.
C11_AbandonReleasesEverything ==
    /\ (phase = "idle" /\ abandoned > 0) =>
          \A b \in Backends :
              futures[b] = "dropped" /\ transport[b] = "closed" /\ HoldersOf(b) = { }
    /\ (phase = "racing" /\ abandoned > 0) =>
          /\ \A b \in Backends :
                /\ futures[b] \in { "new", "sleeping", "connecting" }
                /\ transport[b] # "closed" =>
                      futures[b] = "connecting" /\ HoldersOf(b) = { AttemptId(b) }
          /\ (\E b \in Backends \ NetworkBackends : running[b] /\ Due(b)) =>
                \A start \in SelectStart : SelectOutcome(start).out # None
    /\ (phase = "returned" /\ abandoned > 0) =>
          /\ session \in Backends
          /\ futures[session] = "done"
          /\ \A b \in Backends : transport[b] = (IF b = session THEN "open" ELSE "closed")

\* C11 witness: the caller dropped a connect whose attempt on a network
\* backend was holding a partly open transport; the transport is closed.
C11_Witness ==
    /\ phase = "idle"
    /\ abandoned = 1
    /\ \E b \in NetworkBackends : droppedFrom[b] = "connecting" /\ transport[b] = "closed"

\* A connect called after a dropped one has returned a Session.
C11_FreshConnectReturned ==
    /\ phase = "returned"
    /\ abandoned = 1
    /\ entry = "builder"
    /\ session = "truck_simulator"

\* The Sessions in use, each by the number of the connect call that returned
\* it and its backend: those of earlier calls, and the one returned last.
LiveSessions ==
    { << earlier[i].race, earlier[i].backend >> : i \in 1..Len(earlier) }
        \cup (IF phase = "returned" THEN { << RaceNo, session >> } ELSE { })

\* The attempts in flight: those of the pending call, by call and backend.
InFlight ==
    IF phase = "racing"
    THEN { << RaceNo, b >> : b \in { c \in Backends : futures[c] \in { "new", "sleeping", "connecting" } } }
    ELSE { }

\* No transport has two holders: not two Sessions, not a Session and an
\* attempt, not two attempts.
NoSharedTransport ==
    \A p \in owner : \A q \in owner : p[1] = q[1] => p[2] = q[2]

\* The holders of the transports in one state.  No transport is shared.  Every
\* holder is a Session in use or an attempt in flight; a Session holds exactly
\* one transport, the one its own attempt opened on its backend; an attempt
\* holds at most one, opened by itself, and holds it while it is connecting.
\* The transport of the pending call's attempt on a backend is not closed
\* exactly when that attempt, or the Session it became, holds it.
ExclusiveTransports ==
    /\ NoSharedTransport
    /\ \A p \in owner :
          \/ /\ p[2][1] = "session"
             /\ \E s \in LiveSessions : p[2][2] = s[1] /\ p[1] = << s[1], s[2] >>
          \/ /\ p[2][1] = "attempt"
             /\ << p[2][2], p[2][3] >> \in InFlight
             /\ futures[p[2][3]] = "connecting"
             /\ p[1] = << p[2][2], p[2][3] >>
    /\ \A s \in LiveSessions :
          Cardinality(Holdings(<< "session", s[1] >>, owner)) = 1
    /\ \A s \in LiveSessions : \A u \in LiveSessions : s[1] = u[1] => s = u
    /\ \A b \in Backends :
          (transport[b] # "closed") <=>
              \/ Holdings(AttemptId(b), owner) # { }
              \/ phase = "returned" /\ session = b

\* C12: in every reachable state no transport handle has two holders (two
\* Sessions, a Session and an attempt in flight, or two attempts), also when
\* connect is called again while earlier Sessions are in use, on the same
\* simulator or another; and what an attempt holds stays with that attempt
\* until the attempt wins, when exactly that handle passes to the Session
\* connect returns, or the attempt fails or is cancelled, when it is released;
\* what a Session holds stays with it.
C12_TransportExclusivity ==
    /\ []ExclusiveTransports
    /\ [][ \A p \in owner :
              \/ p \in owner'
              \/ /\ p[2][1] = "attempt"
                 /\ \A q \in owner' : q[2] # p[2]
                 /\ \/ /\ phase' = "returned"
                       /\ session' = p[2][3]
                       /\ << p[1], << "session", p[2][2] >> >> \in owner'
                       /\ transport'[p[2][3]] = "open"
                    \/ /\ \A q \in owner' : q[1] # p[1]
                       /\ transport'[p[2][3]] = "closed"
                       /\ futures'[p[2][3]] \in { "dropped", "sleeping" } ]_vars

\* C12 witness: the caller uses the Session of the generic HTTP simulator and
\* has called connect again; the new call's attempts on generic HTTP and on
\* the truck simulator are both connecting, each holding a transport of its
\* own, and the Session holds the one it was returned with.
C12_Witness ==
    /\ phase = "racing"
    /\ Len(earlier) = 1
    /\ earlier[1].backend = "generic_http"
    /\ owner = { << << 1, "generic_http" >>, << "session", 1 >> >>,
                 << << 2, "generic_http" >>, << "attempt", 2, "generic_http" >> >>,
                 << << 2, "truck_simulator" >>, << "attempt", 2, "truck_simulator" >> >> }

\* Two Sessions of the same simulator are in use, each holding a transport of
\* its own.
C12_TwoSessions ==
    /\ phase = "returned"
    /\ session = "generic_http"
    /\ Len(earlier) = 1
    /\ earlier[1].backend = "generic_http"
    /\ owner = { << << 1, "generic_http" >>, << "session", 1 >> >>,
                 << << 2, "generic_http" >>, << "session", 2 >> >> }

\* The Session is the winner's: exactly one attempt has completed, the Session
\* is that backend's, every name() has returned that backend's name, and every
\* snapshot came through that backend's transport.
SessionOfWinner ==
    phase = "returned" =>
        \E w \in Backends :
            /\ futures[w] = "done"
            /\ \A b \in Backends \ {w} : futures[b] # "done"
            /\ session = w
            /\ \A n \in named : n[1] = name(w)
            /\ sources \subseteq { w }

\* C13: the backend of a Session is the one whose attempt won the race: name()
\* returns the winner's name at every call, before and after next_moment has
\* returned absent; every snapshot the Session hands out was delivered by the
\* winner's transport; and no step changes the backend of the Session.
C13_BackendFixedAtConnect ==
    /\ []SessionOfWinner
    /\ [][ session' = session /\ \A b \in Backends : futures'[b] = futures[b] ]_vars

\* C13 witness: name() was called before and after next_moment returned
\* absent, both calls returned the name of the Session's backend, and the
\* snapshot handed out in between came from that backend's transport.
C13_Witness ==
    /\ session = "assetto_corsa"
    /\ named = { << name("assetto_corsa"), FALSE >>, << name("assetto_corsa"), TRUE >> }
    /\ sources = { "assetto_corsa" }
    /\ yielded = << 1, AbsentMoment >>

\* C14: a race entered through the free function connect() is the race of
\* SimetryConnectionBuilder::connect on a configuration with every field at
\* its documented default: the three addresses are the backends' default
\* addresses, the retry interval is 5 seconds, all seven backends are raced,
\* each network backend is handed its default address, and every backend that
\* is handed the retry interval sleeps 5 seconds after a failed attempt.
C14_FreeConnectIsDefaultBuilder ==
    entry = "free" =>
        /\ config.generic_http_uri = Uri("DEFAULT_URI", "generic_http")
        /\ config.truck_simulator_uri = Uri("DEFAULT_URI", "truck_simulator")
        /\ config.dirt_rally_2_uri = Uri("DEFAULT_URI", "dirt_rally_2")
        /\ config.retry_delay = DefaultRetryDelay
        /\ \A b \in NetworkBackends :
              ConnectArgs(config, b).uri = { Uri("DEFAULT_URI", b) }
        /\ phase = "racing" =>
              \A b \in Backends : futures[b] \in { "new", "sleeping", "connecting" }
        /\ \A b \in Backends :
              (futures[b] = "sleeping" /\ ConnectArgs(config, b).retry_delay # { }) =>
                  deadline[b] = lastAttempt[b] + DefaultRetryDelay

\* C14 witness: the free function was called with no simulator running, six
\* attempts went to sleep for the default interval, then the generic HTTP
\* simulator was launched and connect returned its Session.
C14_Witness ==
    /\ entry = "free"
    /\ abandoned = 0
    /\ phase = "returned"
    /\ session = "generic_http"
    /\ droppedFrom["iracing"] = "sleeping"
    /\ config = SimetryConnectionBuilder_default

\* The same outcome, reached through SimetryConnectionBuilder::default().connect().
C14_SameThroughBuilder ==
    /\ entry = "builder"
    /\ abandoned = 0
    /\ phase = "returned"
    /\ session = "generic_http"
    /\ droppedFrom["iracing"] = "sleeping"
    /\ config = SimetryConnectionBuilder_default

\* While connect is pending each of the seven backends has one attempt, and it
\* is in flight; as soon as one attempt has been polled, which is when the
\* race starts to wait, every one of the seven has made its first attempt.
\* Once connect has returned, the winner's attempt is finished and the six
\* others are cancelled.
OneAttemptEach ==
    /\ phase = "racing" =>
          /\ \A b \in Backends : futures[b] \in { "new", "sleeping", "connecting" }
          /\ (\E b \in Backends : futures[b] # "new") =>
                \A b \in Backends : futures[b] # "new" /\ lastAttempt[b] >= 0
    /\ phase = "returned" =>
          \A b \in Backends : futures[b] = (IF b = session THEN "done" ELSE "dropped")

\* C15: one connect call creates exactly one attempt per backend, all seven
\* in the step that enters the race and before anything is waited for; no
\* other step creates an attempt, and an attempt that is finished or cancelled
\* is not started again by that call.
C15_OneAttemptPerBackend ==
    /\ []OneAttemptEach
    /\ [][ /\ (phase = "idle" /\ phase' = "racing") =>
                \A b \in Backends : futures'[b] = "new" /\ lastAttempt'[b] = -1
           /\ ~(phase = "idle" /\ phase' = "racing") =>
                \A b \in Backends :
                    /\ futures'[b] = "new" => futures[b] = "new"
                    /\ futures[b] \in { "done", "dropped" } => futures'[b] = futures[b] ]_vars

\* C15 witness: no simulator runs; the race is waiting, one tick after connect
\* was called, and each of the seven attempts was made once, at time 0.
C15_Witness ==
    /\ phase = "racing"
    /\ now = 1
    /\ \A b \in Backends : futures[b] = "sleeping" /\ lastAttempt[b] = 0

\* A backend polls for its simulator when its attempt sleeps between two tries.
Polls(b) == futures[b] = "sleeping" \/ droppedFrom[b] = "sleeping"

\* Each network backend is handed its own address of the configuration, and
\* the backends without an address are handed none.
OwnAddressOnly ==
    /\ ConnectArgs(config, "dirt_rally_2").uri = { config.dirt_rally_2_uri }
    /\ ConnectArgs(config, "generic_http").uri = { config.generic_http_uri }
    /\ ConnectArgs(config, "truck_simulator").uri = { config.truck_simulator_uri }
    /\ \A b \in Backends \ NetworkBackends : ConnectArgs(config, b).uri = { }

\* C16: connect only reads the configuration: every backend that polls for its
\* simulator has been handed the one retry interval of the configuration, and
\* each network backend its own address and no other.
C16_ConfigurationHandedToAll ==
    /\ \A b \in Backends :
          Polls(b) => ConnectArgs(config, b).retry_delay = { config.retry_delay }
    /\ OwnAddressOnly

\* What of C16 holds: the six backends other than rFactor 2 are handed the
\* retry interval of the configuration when they poll, the addresses go each
\* to its own backend, and no step of the race changes the configuration.
ConfigurationReadOnly ==
    /\ [](/\ \A b \in Backends \ { "rfactor_2" } :
                Polls(b) => ConnectArgs(config, b).retry_delay = { config.retry_delay }
          /\ OwnAddressOnly)
    /\ [][config' = config]_vars

\* C17: while connect is pending every one of the seven attempts is in flight,
\* however long the race has lasted; an attempt is cancelled only in a state
\* where another attempt has completed and connect has returned its Session,
\* or where the caller has dropped the race; and as long as no simulator is
\* reachable no poll ends the race.
C17_CancelledOnlyOnCompletion ==
    /\ phase = "racing" =>
          /\ \A b \in Backends :
                futures[b] \in { "new", "sleeping", "connecting" } /\ droppedFrom[b] = None
          /\ (\A b \in Backends : ~running[b]) =>
                \A start \in SelectStart : SelectOutcome(start).out = None
    /\ \A b \in Backends :
          futures[b] = "dropped" =>
              \/ /\ phase = "returned"
                 /\ session \in Backends \ {b}
                 /\ futures[session] = "done"
              \/ /\ phase = "idle"
                 /\ abandoned > 0
                 /\ \A c \in Backends : futures[c] = "dropped"

\* C17 witness: no simulator was reachable; at the end of the observed time
\* connect is still pending and all seven attempts are asleep before their
\* next try, each having tried again since the race began.
C17_Witness ==
    /\ phase = "racing"
    /\ now >= 3
    /\ abandoned = 0
    /\ \A b \in Backends : futures[b] = "sleeping" /\ ~running[b] /\ lastAttempt[b] >= 1

\* The documented default of each query.
Documented(q) ==
    CASE q \in { "vehicle_left", "vehicle_right", "starter_on" } -> FALSE
      [] q = "ignition_on" -> TRUE
      [] q \in { "basic_telemetry", "shift_point", "vehicle_unique_id" } -> Absent
      [] q = "flags" -> { }

\* C18: whichever of the eight queries a Moment's type implements itself, a
\* query it does not implement returns its documented default; a query called
\* again after any other queries returns what it returned the first time; and
\* no call changes what the Moment implements or holds.
C18_QueriesIndependent ==
    /\ [](asked \in Queries \ overrides => answer = Some(Documented(asked)))
    /\ [](first # << >> /\ asked = first[1] => answer = first[2])
    /\ [][overrides' = overrides /\ data' = data]_vars

\* C18 witness: the type implements ignition_on only, and reports it off;
\* ignition_on was called first and returned false, then starter_on, which the
\* type does not implement, returned its default.
C18_Witness ==
    /\ overrides = { "ignition_on" }
    /\ first = << "ignition_on", Some(FALSE) >>
    /\ asked = "starter_on"
    /\ answer = Some(FALSE)
    /\ data.starter_on = TRUE

====
